---- MODULE Spec2Model ----
(***************************************************************************)
(* Model of finder.go (package dosa): FindEntities, the                    *)
(* EntityRecordingVisitor, isDosaEntity, tableFromStructType and           *)
(* stringToDosaType.                                                       *)
(*                                                                         *)
(* Two specifications share the definitions:                               *)
(*   Spec   - a whole scan: FindEntities iterating packages, files and     *)
(*            declarations, ast.Walk driving Visit over the syntax tree.   *)
(*   SpecT  - one Visit of one type declaration whose struct is drawn      *)
(*            from every struct of up to MaxFields fields of FieldPool.    *)
(***************************************************************************)
EXTENDS Integers, Sequences, FiniteSets, Bags, TLC

VARIABLES
    excludes,   \* FindEntities argument: the exclusion pattern
    pc,         \* FindEntities: "idle" between calls, "scan" inside one ("unit" under SpecT)
    pkgsLeft,   \* packages the range loop has not yet yielded
    filesLeft,  \* files of the current package not yet yielded
    declsLeft,  \* declarations of the current file not yet walked
    stack,      \* nodes ast.Walk still has to hand to Visit (top first)
    Entities,   \* erv.Entities
    Warnings,   \* erv.Warnings
    returned,   \* what each finished FindEntities call returned
    evaluated,  \* history: ids of the type declarations isDosaEntity was called on
    accepted,   \* history: how many of them isDosaEntity accepted
    tree,       \* the parsed directory (what parser.ParseDir reads)
    decl,       \* SpecT: the type declaration handed to Visit
    tpc,        \* SpecT: "ready" | "done"
    last        \* history: the record of the last Visit of a type declaration

vars == <<excludes, pc, pkgsLeft, filesLeft, declsLeft, stack, Entities, Warnings,
          returned, evaluated, accepted, tree, decl, tpc, last>>

(***************************************************************************)
(* Bounds                                                                  *)
(***************************************************************************)
MaxFields == 3

MaxScanFields == 2

MaxRuns == 2

(***************************************************************************)
(* Program constants                                                       *)
(***************************************************************************)
entityName == "Entity"

dosaTagKey == "dosa"

Invalid == "Invalid"

(***************************************************************************)
(* Syntax-tree values.                                                     *)
(* A field type (ast.Expr) is [shape, name, sub, subName]:                 *)
(*   Ident         name = the identifier                                   *)
(*   ArrayType     sub/subName = shape and identifier of the element       *)
(*   SelectorExpr  sub/subName = shape and identifier of X, name = Sel     *)
(*   StarExpr, StructType: no further detail is read by the code           *)
(* A tag value is a sequence of tokens [t, v, k]; "sp" is white space.     *)
(***************************************************************************)
Ident(n) == [shape |-> "Ident", name |-> n, sub |-> "", subName |-> ""]

ArrayOf(eltShape, eltName) == [shape |-> "ArrayType", name |-> "", sub |-> eltShape, subName |-> eltName]

Selector(xName, sel) == [shape |-> "SelectorExpr", name |-> sel, sub |-> "Ident", subName |-> xName]

OtherExpr(shape) == [shape |-> shape, name |-> "", sub |-> "", subName |-> ""]

Tok(t, v, k) == [t |-> t, v |-> v, k |-> k]

Sp == Tok("sp", "", <<>>)

Dash == Tok("-", "", <<>>)

NameTok(c) == Tok("name", c, <<>>)

PkTok(n, k) == Tok("pk", n, k)

BadTok == Tok("bad", "", <<>>)

\* field.Tag: nil, or a string literal whose value under each key is a token sequence
NoTag == [present |-> FALSE, key |-> "", val |-> <<>>]

Tag(key, val) == [present |-> TRUE, key |-> key, val |-> val]

Field(names, type, tag) == [Names |-> names, Type |-> type, Tag |-> tag]

\* reflect.StructTag(...).Get(key): the value under key, "" when the key is absent
StructTagGet(tag, key) == IF tag.present /\ tag.key = key THEN tag.val ELSE <<>>

\* strings.TrimSpace
RECURSIVE TrimLeft(_)
TrimLeft(s) == IF s # <<>> /\ Head(s) = Sp THEN TrimLeft(Tail(s)) ELSE s

RECURSIVE TrimRight(_)
TrimRight(s) == IF s # <<>> /\ s[Len(s)] = Sp THEN TrimRight(SubSeq(s, 1, Len(s) - 1)) ELSE s

TrimSpace(s) == TrimRight(TrimLeft(s))

\* utf8.DecodeRuneInString + unicode.IsLower on the first rune of an identifier
LowerInitial == {"b"}

IsLowerFirst(name) == name \in LowerInitial

(***************************************************************************)
(* Errors and the collaborators of tableFromStructType that live in other  *)
(* files of the package.                                                   *)
(***************************************************************************)
Nil == [kind |-> "nil", name |-> "", label |-> ""]

Error(kind, name, label) == [kind |-> kind, name |-> name, label |-> label]

\* NormalizeName: lower-cases a name; rejects names that are not valid schema names
NormTable == [n \in {"A", "B", "b", "T1", "T2", "T3", "T4", "Tbad"} |->
                 CASE n = "A" -> "a" [] n = "B" -> "b" [] n = "b" -> "b"
                   [] n = "T1" -> "t1" [] n = "T2" -> "t2" [] n = "T3" -> "t3"
                   [] n = "T4" -> "t4" [] OTHER -> ""]

NormalizeName(n) == IF NormTable[n] = "" THEN [name |-> "", err |-> Error("normalize", n, "")]
                    ELSE [name |-> NormTable[n], err |-> Nil]

\* parseEntityTag(structName, dosaTag) -> (name, key, err)
parseEntityTag(structName, dosaTag) ==
    IF Len(dosaTag) = 1 /\ dosaTag[1].t = "pk"
    THEN [name |-> IF dosaTag[1].v = "" THEN NormalizeName(structName).name ELSE dosaTag[1].v,
          key |-> dosaTag[1].k, err |-> Nil]
    ELSE [name |-> "", key |-> <<>>, err |-> Error("entityTag", structName, "")]

\* parseField(typ, name, dosaTag) -> (*ColumnDefinition, err)
parseField(typ, name, dosaTag) ==
    IF dosaTag = <<>>
    THEN [cd |-> [Name |-> NormalizeName(name).name, Type |-> typ], err |-> Nil]
    ELSE IF Len(dosaTag) = 1 /\ dosaTag[1].t = "name"
    THEN [cd |-> [Name |-> dosaTag[1].v, Type |-> typ], err |-> Nil]
    ELSE [cd |-> [Name |-> "", Type |-> typ], err |-> Error("fieldTag", name, "")]

EmptyMap == [x \in {} |-> ""]

Put(m, k, v) == [x \in (DOMAIN m) \cup {k} |-> IF x = k THEN v ELSE m[x]]

\* translateKeyName(t): key field names become column names
translateKeyName(t) ==
    [t EXCEPT !.Key = [i \in 1..Len(t.Key) |->
                          IF t.Key[i] \in DOMAIN t.FieldToCol THEN t.FieldToCol[t.Key[i]] ELSE ""]]

\* t.EnsureValid(): a key is present, every key column is a column, column names are distinct
EnsureValid(t) ==
    IF /\ t.Key # <<>>
       /\ \A i \in 1..Len(t.Key) : \E j \in 1..Len(t.Columns) : t.Columns[j].Name = t.Key[i]
       /\ \A i, j \in 1..Len(t.Columns) : t.Columns[i].Name = t.Columns[j].Name => i = j
    THEN Nil
    ELSE Error("ensureValid", t.StructName, "")

(***************************************************************************)
(* stringToDosaType                                                        *)
(***************************************************************************)
stringToDosaType(inType) ==
    CASE inType = "string"    -> "String"
      [] inType = "[]byte"    -> "Blob"
      [] inType = "bool"      -> "Bool"
      [] inType = "int32"     -> "Int32"
      [] inType = "int64"     -> "Int64"
      [] inType = "float64"   -> "Double"
      [] inType = "time.Time" -> "Timestamp"
      [] inType = "UUID"      -> "TUUID"
      [] OTHER                -> Invalid

(***************************************************************************)
(* isDosaEntity.  The parser gives every field tag the kind token.STRING,  *)
(* so of line 113 only the nil test can reject.                            *)
(***************************************************************************)
isDosaEntity(structType) ==
    IF Len(structType) < 1 THEN FALSE
    ELSE LET candidateEntityField == structType[1] IN
         IF candidateEntityField.Type.shape = "Ident" /\ candidateEntityField.Type.name # entityName
         THEN FALSE
         ELSE IF ~candidateEntityField.Tag.present THEN FALSE
         ELSE StructTagGet(candidateEntityField.Tag, dosaTagKey) # <<>>

(***************************************************************************)
(* tableFromStructType.  The loop state is [t, err, log]: t the table      *)
(* under construction, err the error returned (Nil while running), log a   *)
(* history of the calls made to parseEntityTag, stringToDosaType and       *)
(* parseField, in order.                                                   *)
(***************************************************************************)
\* lines 142-146: the trimmed value under the dosa key, "" without a tag
DosaTagOf_NoTrim(field) == IF field.Tag.present THEN StructTagGet(field.Tag, dosaTagKey) ELSE <<>>

DosaTagOf(field) == IF field.Tag.present THEN TrimSpace(StructTagGet(field.Tag, dosaTagKey)) ELSE <<>>

\* lines 150-170: the type label
KindOf(type) ==
    CASE type.shape = "Ident" -> type.name
      [] type.shape = "ArrayType" -> IF type.sub = "Ident" /\ type.subName = "byte" THEN "[]byte" ELSE ""
      [] type.shape = "SelectorExpr" -> IF type.sub = "Ident" /\ type.subName = "time" THEN "time.Time" ELSE ""
      [] OTHER -> ""

Ev(op, fi, name, label, ok) == [op |-> op, field |-> fi, name |-> name, label |-> label, ok |-> ok]

Mapped(acc, fi, kind, name, typ) == Append(acc.log, Ev("stringToDosaType", fi, name, kind, typ # Invalid))

\* lines 188-194: the column is parsed, appended and registered in both maps
AddColumn(acc, fi, kind, name, typ, pf) ==
    IF pf.err # Nil
    THEN [acc EXCEPT !.err = Error("column", name, ""),
                     !.log = Append(Mapped(acc, fi, kind, name, typ), Ev("parseField", fi, name, kind, FALSE))]
    ELSE [acc EXCEPT !.t.Columns = Append(@, pf.cd),
                     !.t.ColToField = Put(@, pf.cd.Name, name),
                     !.t.FieldToCol = Put(@, name, pf.cd.Name),
                     !.log = Append(Mapped(acc, fi, kind, name, typ), Ev("parseField", fi, name, kind, TRUE))]

\* lines 184-187: an Invalid type ends the translation
CheckType_Skipped(acc, fi, kind, dosaTag, name, typ) ==
    AddColumn(acc, fi, kind, name, typ, parseField(typ, name, dosaTag))

CheckType(acc, fi, kind, dosaTag, name, typ) ==
    IF typ = Invalid
    THEN [acc EXCEPT !.err = Error("invalidType", name, kind), !.log = Mapped(acc, fi, kind, name, typ)]
    ELSE AddColumn(acc, fi, kind, name, typ, parseField(typ, name, dosaTag))

\* lines 178-194: one name bound by a column field
NameStep(acc, fi, kind, dosaTag, name) ==
    IF IsLowerFirst(name) THEN acc
    ELSE CheckType(acc, fi, kind, dosaTag, name, stringToDosaType(kind))

\* line 177: for _, fieldName := range field.Names (a return inside ends the loop)
RECURSIVE NamesLoop(_, _, _, _, _, _)
NamesLoop(acc, fi, kind, dosaTag, names, j) ==
    IF j > Len(names) \/ acc.err # Nil THEN acc
    ELSE NamesLoop(NameStep(acc, fi, kind, dosaTag, names[j]), fi, kind, dosaTag, names, j + 1)

\* line 173: t.EntityDefinition.Name, t.Key, err = parseEntityTag(...)
SetEntity_FirstWins(acc, fi, r) ==
    IF r.err # Nil
    THEN [acc EXCEPT !.t.Name = r.name, !.t.Key = r.key, !.err = r.err,
                     !.log = Append(@, Ev("parseEntityTag", fi, "", entityName, FALSE))]
    ELSE IF acc.t.Key # <<>>
    THEN [acc EXCEPT !.log = Append(@, Ev("parseEntityTag", fi, r.name, entityName, TRUE))]
    ELSE [acc EXCEPT !.t.Name = r.name, !.t.Key = r.key,
                     !.log = Append(@, Ev("parseEntityTag", fi, r.name, entityName, TRUE))]

SetEntity(acc, fi, r) ==
    IF r.err # Nil
    THEN [acc EXCEPT !.t.Name = r.name, !.t.Key = r.key, !.err = r.err,
                     !.log = Append(@, Ev("parseEntityTag", fi, "", entityName, FALSE))]
    ELSE [acc EXCEPT !.t.Name = r.name, !.t.Key = r.key,
                     !.log = Append(@, Ev("parseEntityTag", fi, r.name, entityName, TRUE))]

\* lines 171-175: a field of the marker type sets the entity name and the key
MarkerStep(acc, fi, structName, dosaTag) == SetEntity(acc, fi, parseEntityTag(structName, dosaTag))

\* lines 147-196: skip, marker or columns, by the tag value and the type label
Dispatch(acc, fi, structName, field, dosaTag, kind) ==
    IF dosaTag = <<Dash>> THEN acc
    ELSE IF kind = entityName THEN MarkerStep(acc, fi, structName, dosaTag)
    ELSE NamesLoop(acc, fi, kind, dosaTag, field.Names, 1)

\* lines 141-197: the body of the loop over structType.Fields.List
FieldStep(acc, fi, structName, field) ==
    Dispatch(acc, fi, structName, field, DosaTagOf(field), KindOf(field.Type))

RECURSIVE FieldsLoop(_, _, _, _)
FieldsLoop(acc, structName, fields, i) ==
    IF i > Len(fields) \/ acc.err # Nil THEN acc
    ELSE FieldsLoop(FieldStep(acc, i, structName, fields[i]), structName, fields, i + 1)

NoTable == [StructName |-> "", Name |-> "", Key |-> <<>>, Columns |-> <<>>,
            ColToField |-> EmptyMap, FieldToCol |-> EmptyMap]

\* lines 132-140
NewTable(structName, normalizedName) ==
    [StructName |-> structName, Name |-> normalizedName, Key |-> <<>>, Columns |-> <<>>,
     ColToField |-> EmptyMap, FieldToCol |-> EmptyMap]

\* lines 199-202: t is the table after translateKeyName
Validate(structName, acc, t) ==
    IF EnsureValid(t) # Nil
    THEN [table |-> NoTable, err |-> Error("failedToParse", structName, ""), pre |-> acc.t, log |-> acc.log]
    ELSE [table |-> t, err |-> Nil, pre |-> acc.t, log |-> acc.log]

\* an error returned inside the loop, else lines 198-202
Finish(structName, acc) ==
    IF acc.err # Nil
    THEN [table |-> NoTable, err |-> acc.err, pre |-> acc.t, log |-> acc.log]
    ELSE Validate(structName, acc, translateKeyName(acc.t))

\* lines 126-197
Translate(structName, structType, n) ==
    IF n.err # Nil
    THEN [table |-> NoTable, err |-> Error("structName", structName, ""), pre |-> NoTable, log |-> <<>>]
    ELSE Finish(structName,
                FieldsLoop([t |-> NewTable(structName, n.name), err |-> Nil, log |-> <<>>],
                           structName, structType, 1))

\* the result is [table, err]; pre (the table before translateKeyName) and log are history
tableFromStructType(structName, structType) ==
    Translate(structName, structType, NormalizeName(structName))

(***************************************************************************)
(* Syntax-tree nodes handed to Visit: [kind, id, name, isStruct, st, kids]. *)
(* kids are the children ast.Walk visits when Visit returns the visitor.   *)
(* For a TypeSpec, name is n.Name.Name, isStruct says whether n.Type is a  *)
(* *ast.StructType and st is its Fields.List.                              *)
(***************************************************************************)
Node(kind, id, kids) == [kind |-> kind, id |-> id, name |-> "", isStruct |-> FALSE, st |-> <<>>, kids |-> kids]

TypeSpec(id, name, st) ==
    [kind |-> "TypeSpec", id |-> id, name |-> name, isStruct |-> TRUE, st |-> st,
     kids |-> <<Node("Ident", 0, <<>>), Node("StructType", 0, <<>>)>>]

AliasSpec(id, name) ==
    [kind |-> "TypeSpec", id |-> id, name |-> name, isStruct |-> FALSE, st |-> <<>>,
     kids |-> <<Node("Ident", 0, <<>>), Node("Ident", 0, <<>>)>>]

\* line 74: the node kinds for which Visit returns the visitor
IsContainer_WithIf(kind) ==
    kind \in {"File", "Package", "BlockStmt", "DeclStmt", "FuncDecl", "GenDecl", "IfStmt"}

IsContainer(kind) == kind \in {"File", "Package", "BlockStmt", "DeclStmt", "FuncDecl", "GenDecl"}

NoVisit == [id |-> 0, name |-> "", st |-> <<>>, accepted |-> FALSE, invoked |-> FALSE,
            res |-> [table |-> NoTable, err |-> Nil, pre |-> NoTable, log |-> <<>>]]

Unchanged(E, W, heur, rec) == [ret |-> "nil", Entities |-> E, Warnings |-> W, heur |-> heur, rec |-> rec]

VisitRec(n, r) == [id |-> n.id, name |-> n.name, st |-> n.st, accepted |-> TRUE, invoked |-> TRUE, res |-> r]

\* lines 80-85: table, err := tableFromStructType(...); append to one of the lists
Record_DropWarning(n, E, W, r) ==
    [ret |-> "nil",
     Entities |-> IF r.err = Nil THEN Append(E, r.table) ELSE E,
     Warnings |-> W,
     heur |-> TRUE,
     rec |-> VisitRec(n, r)]

Record(n, E, W, r) ==
    [ret |-> "nil",
     Entities |-> IF r.err = Nil THEN Append(E, r.table) ELSE E,
     Warnings |-> IF r.err = Nil THEN W ELSE Append(W, r.err),
     heur |-> TRUE,
     rec |-> VisitRec(n, r)]

(***************************************************************************)
(* EntityRecordingVisitor.Visit.  ret is the visitor returned ("f") or nil;*)
(* heur says whether isDosaEntity was called; rec is the history record.   *)
(***************************************************************************)
Visit(n, E, W) ==
    IF IsContainer(n.kind) THEN [ret |-> "f", Entities |-> E, Warnings |-> W, heur |-> FALSE, rec |-> NoVisit]
    ELSE IF n.kind = "TypeSpec" /\ n.isStruct
    THEN IF isDosaEntity(n.st)
         THEN Record(n, E, W, tableFromStructType(n.name, n.st))
         ELSE Unchanged(E, W, TRUE, [NoVisit EXCEPT !.id = n.id, !.name = n.name, !.st = n.st])
    ELSE Unchanged(E, W, FALSE, NoVisit)

(***************************************************************************)
(* Inputs                                                                  *)
(***************************************************************************)
KeyA == Tag(dosaTagKey, <<PkTok("", <<"A">>)>>)

FMarker == Field(<<>>, Ident(entityName), KeyA)

FMarker2 == Field(<<>>, Ident(entityName), Tag(dosaTagKey, <<PkTok("e2", <<"B">>)>>))

FMarkerBad == Field(<<>>, Ident(entityName), Tag(dosaTagKey, <<BadTok>>))

FString == Field(<<"A">>, Ident("string"), NoTag)

FTwoNames == Field(<<"A", "B">>, Ident("int64"), Tag(dosaTagKey, <<NameTok("c")>>))

FRenamed == Field(<<"A">>, Ident("int32"), Tag(dosaTagKey, <<NameTok("b")>>))

FUnknown == Field(<<"B">>, Ident("Foo"), NoTag)

FIgnored == Field(<<"B">>, Ident("Foo"), Tag(dosaTagKey, <<Dash>>))

FIgnoredSp == Field(<<"B">>, Ident("Foo"), Tag(dosaTagKey, <<Sp, Dash, Sp>>))

FUnexported == Field(<<"b">>, Ident("Foo"), NoTag)

FDuration == Field(<<"B">>, Selector("time", "Duration"), NoTag)

FTime == Field(<<"B">>, Selector("time", "Time"), Tag("json", <<NameTok("x")>>))

FBlobTagged == Field(<<"B">>, ArrayOf("Ident", "byte"), Tag(dosaTagKey, <<NameTok("c")>>))

FEmbeddedSel == Field(<<>>, Selector("pkg", "Base"), KeyA)

FEmbeddedPtr == Field(<<>>, OtherExpr("StarExpr"), NoTag)

FBadTag == Field(<<"B">>, Ident("string"), Tag(dosaTagKey, <<BadTok>>))

FieldPool == {FMarker, FMarker2, FMarkerBad, FString, FTwoNames, FRenamed, FUnknown, FIgnored,
              FIgnoredSp, FUnexported, FDuration, FTime, FBlobTagged, FEmbeddedSel, FEmbeddedPtr,
              FBadTag}

StructsFrom(pool, n) == UNION {[1..k -> pool] : k \in 0..n}

StructNames == {"T1", "Tbad"}

\* the scan: one struct varies, the rest of the directory is fixed
ScanPool == {FMarker, FString, FUnknown, FBlobTagged}

GoodStruct == <<FMarker, FString>>

BadStruct == <<FMarker, FUnknown>>

PlainStruct == <<FString>>

FileA(s) ==
    << Node("GenDecl", 0, <<TypeSpec(1, "T1", s)>>),
       Node("FuncDecl", 0,
            << Node("Ident", 0, <<>>),
               Node("BlockStmt", 0,
                    << Node("DeclStmt", 0, <<Node("GenDecl", 0, <<TypeSpec(2, "T2", GoodStruct)>>)>>),
                       Node("IfStmt", 0,
                            << Node("BlockStmt", 0,
                                    <<Node("DeclStmt", 0,
                                           <<Node("GenDecl", 0, <<TypeSpec(3, "T3", GoodStruct)>>)>>)>>) >>) >>) >>) >>

FileB(s) == << Node("GenDecl", 0, <<TypeSpec(4, "T4", s)>>) >>

FileC == << Node("GenDecl", 0, <<TypeSpec(5, "T3", BadStruct), AliasSpec(6, "T2"), TypeSpec(7, "T2", PlainStruct)>>) >>

FileNames == {"a.go", "b_gen.go", "c.go"}

PkgOf == [f \in FileNames |-> IF f = "c.go" THEN "p2" ELSE "p1"]

Patterns == {"", "*_gen.go"}

\* filepath.Match(excludes, fileInfo.Name())
Match(pattern, name) == pattern = "*_gen.go" /\ name = "b_gen.go"

\* lines 42-48: the filter handed to parser.ParseDir
Included(ex, name) == IF ex = "" THEN TRUE ELSE ~Match(ex, name)

Trees == {[f \in FileNames |->
              [parses |-> IF f = "b_gen.go" THEN ok ELSE TRUE,
               Decls |-> CASE f = "a.go" -> FileA(s1) [] f = "b_gen.go" -> FileB(s2) [] OTHER -> FileC]] :
          s1 \in StructsFrom(ScanPool, MaxScanFields), s2 \in {GoodStruct, BadStruct}, ok \in BOOLEAN}

NoNode == Node("none", 0, <<>>)

NoTree == [f \in FileNames |-> [parses |-> TRUE, Decls |-> <<>>]]

(***************************************************************************)
(* Spec: FindEntities                                                      *)
(***************************************************************************)
Init ==
    /\ tree \in Trees
    /\ excludes \in Patterns
    /\ pc = "idle"
    /\ pkgsLeft = {}
    /\ filesLeft = {}
    /\ declsLeft = <<>>
    /\ stack = <<>>
    /\ Entities = <<>>
    /\ Warnings = <<>>
    /\ returned = <<>>
    /\ evaluated = <<>>
    /\ accepted = 0
    /\ last = NoVisit
    /\ decl = NoNode
    /\ tpc = "off"

ParsedFiles == {f \in FileNames : Included(excludes, f)}

\* lines 42-51: parser.ParseDir fails on a file it cannot parse
ParseFails ==
    /\ pc = "idle"
    /\ Len(returned) < MaxRuns
    /\ \E f \in ParsedFiles : ~tree[f].parses
    /\ returned' = Append(returned, [entities |-> <<>>, warnings |-> <<>>, err |-> "parse"])
    /\ UNCHANGED <<excludes, pc, pkgsLeft, filesLeft, declsLeft, stack, Entities, Warnings,
                   evaluated, accepted, tree, decl, tpc, last>>

\* lines 41-52: parse, then erv := new(EntityRecordingVisitor)
Start_KeepAccumulators ==
    /\ pc = "idle"
    /\ Len(returned) < MaxRuns
    /\ \A f \in ParsedFiles : tree[f].parses
    /\ pc' = "scan"
    /\ pkgsLeft' = {PkgOf[f] : f \in ParsedFiles}
    /\ evaluated' = <<>>
    /\ accepted' = Len(Entities) + Len(Warnings)
    /\ UNCHANGED <<excludes, filesLeft, declsLeft, stack, Entities, Warnings, returned, tree, decl, tpc, last>>

Start ==
    /\ pc = "idle"
    /\ Len(returned) < MaxRuns
    /\ \A f \in ParsedFiles : tree[f].parses
    /\ pc' = "scan"
    /\ pkgsLeft' = {PkgOf[f] : f \in ParsedFiles}
    /\ Entities' = <<>>
    /\ Warnings' = <<>>
    /\ evaluated' = <<>>
    /\ accepted' = 0
    /\ UNCHANGED <<excludes, filesLeft, declsLeft, stack, returned, tree, decl, tpc, last>>

Between == pc = "scan" /\ stack = <<>> /\ declsLeft = <<>>

\* line 53: range over the packages map, in any order
NextPackage ==
    /\ Between /\ filesLeft = {}
    /\ \E p \in pkgsLeft :
          /\ pkgsLeft' = pkgsLeft \ {p}
          /\ filesLeft' = {f \in ParsedFiles : PkgOf[f] = p}
    /\ UNCHANGED <<excludes, pc, declsLeft, stack, Entities, Warnings, returned, evaluated,
                   accepted, tree, decl, tpc, last>>

\* line 54: range over the pkg.Files map, in any order
NextFile ==
    /\ Between
    /\ \E f \in filesLeft :
          /\ filesLeft' = filesLeft \ {f}
          /\ declsLeft' = tree[f].Decls
    /\ UNCHANGED <<excludes, pc, pkgsLeft, stack, Entities, Warnings, returned, evaluated,
                   accepted, tree, decl, tpc, last>>

\* lines 55-56: ast.Walk(erv, decl)
NextDecl ==
    /\ pc = "scan" /\ stack = <<>> /\ declsLeft # <<>>
    /\ stack' = <<Head(declsLeft)>>
    /\ declsLeft' = Tail(declsLeft)
    /\ UNCHANGED <<excludes, pc, pkgsLeft, filesLeft, Entities, Warnings, returned, evaluated,
                   accepted, tree, decl, tpc, last>>

\* ast.Walk hands the next node to Visit and descends when the visitor is returned
\* (its closing Visit(nil) matches no case of the switch and changes nothing)
Walked(n, r) ==
    /\ stack' = IF r.ret = "f" THEN n.kids \o Tail(stack) ELSE Tail(stack)
    /\ Entities' = r.Entities
    /\ Warnings' = r.Warnings
    /\ evaluated' = IF r.heur THEN Append(evaluated, n.id) ELSE evaluated
    /\ accepted' = IF r.rec.accepted THEN accepted + 1 ELSE accepted
    /\ last' = IF r.heur THEN r.rec ELSE last
    /\ UNCHANGED <<excludes, pc, pkgsLeft, filesLeft, declsLeft, returned, tree, decl, tpc>>

WalkStep(n) == Walked(n, Visit(n, Entities, Warnings))

VisitContainer == pc = "scan" /\ stack # <<>> /\ IsContainer(Head(stack).kind) /\ WalkStep(Head(stack))

VisitTypeSpec == pc = "scan" /\ stack # <<>> /\ Head(stack).kind = "TypeSpec" /\ WalkStep(Head(stack))

VisitOther ==
    /\ pc = "scan" /\ stack # <<>>
    /\ ~IsContainer(Head(stack).kind) /\ Head(stack).kind # "TypeSpec"
    /\ WalkStep(Head(stack))

\* line 60
Return ==
    /\ Between /\ filesLeft = {} /\ pkgsLeft = {}
    /\ returned' = Append(returned, [entities |-> Entities, warnings |-> Warnings, err |-> "nil"])
    /\ pc' = "idle"
    /\ UNCHANGED <<excludes, pkgsLeft, filesLeft, declsLeft, stack, Entities, Warnings,
                   evaluated, accepted, tree, decl, tpc, last>>

Next ==
    \/ ParseFails
    \/ Start
    \/ NextPackage
    \/ NextFile
    \/ NextDecl
    \/ VisitContainer
    \/ VisitTypeSpec
    \/ VisitOther
    \/ Return

Spec == Init /\ [][Next]_vars

(***************************************************************************)
(* SpecT: one Visit of one type declaration, fresh accumulators            *)
(***************************************************************************)
InitT ==
    /\ decl \in {TypeSpec(1, name, st) : name \in StructNames, st \in StructsFrom(FieldPool, MaxFields)}
    /\ tpc = "ready"
    /\ Entities = <<>>
    /\ Warnings = <<>>
    /\ last = NoVisit
    /\ tree = NoTree
    /\ excludes = ""
    /\ pc = "unit"
    /\ pkgsLeft = {}
    /\ filesLeft = {}
    /\ declsLeft = <<>>
    /\ stack = <<>>
    /\ returned = <<>>
    /\ evaluated = <<>>
    /\ accepted = 0

Visited(r) ==
    /\ Entities' = r.Entities
    /\ Warnings' = r.Warnings
    /\ evaluated' = IF r.heur THEN Append(evaluated, decl.id) ELSE evaluated
    /\ accepted' = IF r.rec.accepted THEN accepted + 1 ELSE accepted
    /\ last' = r.rec

VisitDecl ==
    /\ tpc = "ready"
    /\ Visited(Visit(decl, Entities, Warnings))
    /\ tpc' = "done"
    /\ UNCHANGED <<excludes, pc, pkgsLeft, filesLeft, declsLeft, stack, returned, tree, decl>>

NextT == VisitDecl

SpecT == InitT /\ [][NextT]_vars

(***************************************************************************)
(* Vocabulary of the properties                                            *)
(***************************************************************************)
Done == tpc = "done"

Translated == Done /\ last.invoked

Fields == decl.st

Log == last.res.log

RawValue(f) == StructTagGet(f.Tag, dosaTagKey)

Exported(f) == {f.Names[j] : j \in {k \in 1..Len(f.Names) : ~IsLowerFirst(f.Names[k])}}

\* a field the loop would read: a marker, or one binding an exported name
Read(f) == KindOf(f.Type) = entityName \/ Exported(f) # {}

AllColumnsValid(t) == \A j \in 1..Len(t.Columns) : t.Columns[j].Type # Invalid

EventsOf(i, op) == {k \in 1..Len(Log) : Log[k].field = i /\ Log[k].op = op}

Skipped(i) == \A k \in 1..Len(Log) : Log[k].field # i

Range(s) == {s[i] : i \in 1..Len(s)}

BagOf(s) == [x \in Range(s) |-> Cardinality({i \in 1..Len(s) : s[i] = x})]

IsPrefix(s, t) == Len(s) <= Len(t) /\ SubSeq(t, 1, Len(s)) = s

Max(S) == CHOOSE m \in S : \A x \in S : x <= m

\* the first field is an Entity identifier carrying a non-empty dosa tag value
MarkerFirst(st) ==
    /\ Len(st) >= 1
    /\ st[1].Type = Ident(entityName)
    /\ RawValue(st[1]) # <<>>

InverseMaps(t) ==
    /\ \A c \in DOMAIN t.ColToField :
          t.ColToField[c] \in DOMAIN t.FieldToCol /\ t.FieldToCol[t.ColToField[c]] = c
    /\ \A f \in DOMAIN t.FieldToCol :
          t.FieldToCol[f] \in DOMAIN t.ColToField /\ t.ColToField[t.FieldToCol[f]] = f
    /\ Cardinality(DOMAIN t.ColToField) = Len(t.Columns)
    /\ Cardinality(DOMAIN t.FieldToCol) = Len(t.Columns)

RECURSIVE WithoutIgnored(_)
WithoutIgnored(st) ==
    IF st = <<>> THEN <<>>
    ELSE IF TrimSpace(RawValue(Head(st))) = <<Dash>> THEN WithoutIgnored(Tail(st))
    ELSE <<Head(st)>> \o WithoutIgnored(Tail(st))

MarkerFields == {i \in 1..Len(Fields) : KindOf(Fields[i].Type) = entityName /\ DosaTagOf(Fields[i]) # <<Dash>>}

ParsedMarkers == {Log[k].field : k \in {j \in 1..Len(Log) : Log[j].op = "parseEntityTag" /\ Log[j].ok}}

ContainerKinds == {"File", "Package", "BlockStmt", "DeclStmt", "FuncDecl", "GenDecl"}

\* the struct-typed type declarations below n reachable through container nodes only
RECURSIVE Reachable(_)
Reachable(n) ==
    IF n.kind = "TypeSpec" THEN (IF n.isStruct THEN {n} ELSE {})
    ELSE IF n.kind \in ContainerKinds THEN UNION {Reachable(n.kids[i]) : i \in 1..Len(n.kids)}
    ELSE {}

ReachableIn(decls) == UNION {Reachable(decls[i]) : i \in 1..Len(decls)}

Candidates == UNION {ReachableIn(tree[f].Decls) : f \in ParsedFiles}

AcceptedCandidates == {n \in Candidates : isDosaEntity(n.st)}

Finished(k) == k \in 1..Len(returned) /\ returned[k].err = "nil"

(***************************************************************************)
(* Properties of one Visit of a type declaration (SpecT)                   *)
(***************************************************************************)

\* C1. A struct with no fields, or whose first field is not an identifier-typed Entity
\* field with a non-empty dosa tag value, is rejected: the translator is not invoked and
\* nothing is added to Entities or Warnings.
C1_NonMarkerRejected ==
    Done /\ ~MarkerFirst(Fields) => ~last.invoked /\ Entities = <<>> /\ Warnings = <<>>

\* C3. Every column of every table in Entities has a type other than Invalid, and
\* whenever the translator maps the label of an exported name to Invalid the
\* declaration's result is the error naming that name and label, with no table.
C3_NoInvalidColumn ==
    Translated =>
        /\ \A i \in 1..Len(Entities) : AllColumnsValid(Entities[i])
        /\ \A k \in 1..Len(Log) :
              Log[k].op = "stringToDosaType" /\ ~Log[k].ok =>
                 /\ stringToDosaType(Log[k].label) = Invalid
                 /\ last.res.err = Error("invalidType", Log[k].name, Log[k].label)
                 /\ k = Len(Log)
                 /\ Entities = <<>>
                 /\ Warnings = <<last.res.err>>

C3_Witness ==
    /\ Translated
    /\ last.res.err.kind = "invalidType"
    /\ \E k \in 1..Len(Log) : Log[k].op = "parseField" /\ Log[k].ok

\* C4. In every table produced from a declaration led by the Entity marker, ColToField
\* and FieldToCol are inverse to each other and each has one entry per column.
C4_MapsInverse ==
    Done /\ MarkerFirst(Fields) => \A i \in 1..Len(Entities) : InverseMaps(Entities[i])

\* C5. In a table produced from a declaration led by the Entity marker every field that
\* is neither ignored nor a marker yields one column per exported name, and no field of
\* unrecognized type that binds no name is left out silently.
C5_NoSilentDrop ==
    Translated /\ MarkerFirst(Fields) /\ last.res.err = Nil =>
        \A i \in 1..Len(Fields) :
            DosaTagOf(Fields[i]) # <<Dash>> /\ KindOf(Fields[i].Type) # entityName =>
               /\ \A n \in Exported(Fields[i]) :
                     \E k \in EventsOf(i, "parseField") : Log[k].name = n /\ Log[k].ok
               /\ ~(Fields[i].Names = <<>> /\ stringToDosaType(KindOf(Fields[i].Type)) = Invalid)

\* C6 as claimed (on declarations led by the Entity marker). A field is skipped exactly
\* when its value under the dosa key is exactly "-": in a successful translation a field
\* that would otherwise be read leaves no trace iff its raw value is "-".
C6_ExactDashOnly ==
    Translated /\ MarkerFirst(Fields) /\ last.res.err = Nil =>
        \A i \in 1..Len(Fields) : Read(Fields[i]) => (Skipped(i) <=> RawValue(Fields[i]) = <<Dash>>)

\* C6 as amended. A field is skipped exactly when its value under the dosa key, with
\* surrounding white space trimmed, is "-": the translation's table and error are those
\* of the struct with these fields removed (so such a field adds no column, no mapping
\* entry and no error, whatever its type), and every other field is read.
C6_TrimmedDash ==
    Translated =>
        /\ last.res.table = tableFromStructType(decl.name, WithoutIgnored(Fields)).table
        /\ last.res.err = tableFromStructType(decl.name, WithoutIgnored(Fields)).err
        /\ \A i \in 1..Len(Fields) : TrimSpace(RawValue(Fields[i])) = <<Dash>> => Skipped(i)
        /\ last.res.err = Nil =>
              \A i \in 1..Len(Fields) :
                  Read(Fields[i]) /\ TrimSpace(RawValue(Fields[i])) # <<Dash>> => ~Skipped(i)

C6_Witness ==
    /\ Translated
    /\ last.res.err = Nil
    /\ Entities = <<last.res.table>>
    /\ Warnings = <<>>
    /\ \E i \in 1..Len(Fields) :
          /\ RawValue(Fields[i]) # <<Dash>>
          /\ TrimSpace(RawValue(Fields[i])) = <<Dash>>
          /\ stringToDosaType(KindOf(Fields[i].Type)) = Invalid
          /\ Exported(Fields[i]) # {}

\* C9. In a declaration that translates successfully, an exported, non-ignored field of
\* qualified type denotes time.Time; the label "time.Time" is given to no other type and
\* the label "[]byte" only to an array whose element is the identifier byte.
C9_OnlyTimeTime ==
    Translated /\ MarkerFirst(Fields) /\ last.res.err = Nil =>
        /\ \A i \in 1..Len(Fields) :
              /\ DosaTagOf(Fields[i]) # <<Dash>>
              /\ Exported(Fields[i]) # {}
              /\ Fields[i].Type.shape = "SelectorExpr"
              => Fields[i].Type = Selector("time", "Time")
        /\ \A k \in 1..Len(Log) :
              Log[k].op = "stringToDosaType" =>
                 /\ Log[k].label = "time.Time" => Fields[Log[k].field].Type = Selector("time", "Time")
                 /\ Log[k].label = "[]byte" => Fields[Log[k].field].Type = ArrayOf("Ident", "byte")

\* C10. Fields are read in declaration order; each marker field that is read
\* overwrites name and key, so the table before key-name translation carries those of
\* the last marker field parsed; a marker field never becomes a column; a tag error
\* on a marker field is the declaration's error.
C10_LastMarkerWins ==
    Translated /\ last.res.err.kind # "structName" =>
        /\ \A j, k \in 1..Len(Log) : j < k => Log[j].field <= Log[k].field
        /\ ParsedMarkers \subseteq MarkerFields
        /\ last.res.err = Nil => ParsedMarkers = MarkerFields
        /\ last.res.err.kind # "entityTag" =>
              IF ParsedMarkers = {}
              THEN last.res.pre.Name = NormalizeName(decl.name).name /\ last.res.pre.Key = <<>>
              ELSE LET r == parseEntityTag(decl.name, DosaTagOf(Fields[Max(ParsedMarkers)])) IN
                   last.res.pre.Name = r.name /\ last.res.pre.Key = r.key
        /\ last.res.err = Nil => last.res.table.Name = last.res.pre.Name
        /\ \A k \in 1..Len(Log) :
              /\ Log[k].op # "parseEntityTag" => KindOf(Fields[Log[k].field].Type) # entityName
              /\ Log[k].op = "parseEntityTag" /\ ~Log[k].ok =>
                    /\ k = Len(Log)
                    /\ last.res.err = parseEntityTag(decl.name, DosaTagOf(Fields[Log[k].field])).err
                    /\ last.res.err # Nil
                    /\ Entities = <<>>
        /\ last.res.err = Nil =>
              Len(last.res.table.Columns) = Cardinality({k \in 1..Len(Log) : Log[k].op = "parseField"})

C10_Witness ==
    /\ Translated
    /\ last.res.err = Nil
    /\ Cardinality(ParsedMarkers) >= 2
    /\ \E i \in ParsedMarkers :
          parseEntityTag(decl.name, DosaTagOf(Fields[i])).name # last.res.table.Name

(***************************************************************************)
(* Properties of a whole scan (Spec)                                       *)
(***************************************************************************)
C2_Counts ==
    /\ pc = "scan" => Len(Entities) + Len(Warnings) = accepted
    /\ \A k \in 1..Len(returned) :
          Finished(k) =>
             Len(returned[k].entities) + Len(returned[k].warnings) = Cardinality(AcceptedCandidates)

C2_Step ==
    pc = "scan" /\ pc' = "scan" =>
        /\ IsPrefix(Entities, Entities') /\ IsPrefix(Warnings, Warnings')
        /\ accepted' = accepted => Entities' = Entities /\ Warnings' = Warnings
        /\ accepted' # accepted =>
              \/ Entities' = Append(Entities, last'.res.table) /\ Warnings' = Warnings /\ last'.res.err = Nil
              \/ Warnings' = Append(Warnings, last'.res.err) /\ Entities' = Entities /\ last'.res.err # Nil

\* C2. Every accepted declaration adds exactly one element to exactly one of Entities
\* and Warnings (the table on success, the error on failure); a failure does not end
\* the scan, so a finished scan returns as many entries as there are accepted
\* candidates; entries already recorded stay as they are.
C2_OneAccumulator == []C2_Counts /\ [][C2_Step]_vars

C2_Witness ==
    /\ pc = "scan"
    /\ Warnings # <<>>
    /\ Entities # <<>>
    /\ last.accepted /\ last.res.err = Nil
    /\ Entities[Len(Entities)] = last.res.table

\* C7. Two scans of the same directory with the same exclusion pattern return the same
\* entities and the same warnings as multisets, whatever the order in which packages
\* and files were iterated.
C7_SameMultisets ==
    \A j, k \in 1..Len(returned) :
        /\ returned[j].err = returned[k].err
        /\ BagOf(returned[j].entities) = BagOf(returned[k].entities)
        /\ BagOf(returned[j].warnings) = BagOf(returned[k].warnings)

C7_Witness ==
    /\ Len(returned) >= 2
    /\ returned[1].entities # returned[2].entities
    /\ Len(returned[1].entities) >= 2
    /\ returned[1].warnings # <<>>

C8_Evaluated ==
    /\ \A i \in 1..Len(evaluated) : \E n \in Candidates : n.id = evaluated[i]
    /\ \A i, j \in 1..Len(evaluated) : evaluated[i] = evaluated[j] => i = j
    /\ pc = "idle" /\ Finished(1) => Range(evaluated) = {n.id : n \in Candidates}

C8_Descend ==
    pc = "scan" /\ stack # <<>> =>
        stack' = (IF Head(stack).kind \in ContainerKinds THEN Head(stack).kids ELSE <<>>) \o Tail(stack)

\* C8. The heuristic is evaluated for exactly the struct-typed type declarations
\* reachable from a top-level declaration through container nodes, each at most once,
\* and Visit returns the visitor (ast.Walk descends) below container nodes only.
C8_ContainersOnly == []C8_Evaluated /\ [][C8_Descend]_vars

C8_Witness ==
    /\ pc = "idle" /\ Finished(1)
    /\ 2 \in Range(evaluated)
    /\ 3 \notin Range(evaluated)
    /\ 7 \in Range(evaluated)

====
